---- MODULE Spec2Model ----
(***************************************************************************)
(* Model of the file-manager tool server (src/server.py).                  *)
(*                                                                         *)
(* Strings are sequences of one-character strings, so that the string      *)
(* functions the handlers use (Path.stem, Path.suffix, str.lower,          *)
(* f"{stem}_{counter}{suffix}", the "*.svg" pattern) are computed and not  *)
(* assumed.  A path is a sequence of names, Path.home() being the root of  *)
(* the modelled tree (and the working directory).  The filesystem is a     *)
(* record [dirs, files]: the set of directories and the content of every   *)
(* regular file.  A handler is an operator from the filesystem and the     *)
(* argument bag to the SET of its possible outcomes: the outcomes differ   *)
(* by the order in which the host enumerates a directory.                  *)
(***************************************************************************)
EXTENDS Integers, Sequences, FiniteSets, TLC

VARIABLES fs, mtime, last, calls

vars == <<fs, mtime, last, calls>>

----------------------------------------------------------------------------
(* Bounds of the model. *)

\* At most this many requests that can change the tree are issued.
MaxCalls == 2

----------------------------------------------------------------------------
(* Strings *)

None == <<"None">>

Downloads == <<"D", "o", "w", "n", "l", "o", "a", "d", "s">>
Documents == <<"D", "o", "c", "u", "m", "e", "n", "t", "s">>

\* src/server.py:16-17, Path.home() being the root <<>>.
DOWNLOADS_DIR == <<Downloads>>
DOCUMENTS_DIR == <<Documents>>

dot_svg == <<".", "s", "v", "g">>
dot_zip == <<".", "z", "i", "p">>

\* str.lower on the letters the model's strings use.
lower_char(c) ==
    CASE c = "D" -> "d"
      [] c = "O" -> "o"
      [] c = "C" -> "c"
      [] c = "U" -> "u"
      [] c = "M" -> "m"
      [] c = "E" -> "e"
      [] c = "N" -> "n"
      [] c = "T" -> "t"
      [] c = "S" -> "s"
      [] c = "Z" -> "z"
      [] c = "I" -> "i"
      [] c = "P" -> "p"
      [] c = "V" -> "v"
      [] c = "G" -> "g"
      [] OTHER -> c

lower(s) == [i \in 1..Len(s) |-> lower_char(s[i])]

\* str(n) for n >= 0: the decimal digits.
Digit(d) == <<"0", "1", "2", "3", "4", "5", "6", "7", "8", "9">>[d + 1]

RECURSIVE str(_)
str(n) == IF n < 10 THEN <<Digit(n)>> ELSE str(n \div 10) \o <<Digit(n % 10)>>

\* s.rfind(c), 1-based; 0 when c does not occur.
rfind(s, c) ==
    LET at == {i \in 1..Len(s) : s[i] = c}
    IN  IF at = {} THEN 0 ELSE CHOOSE i \in at : \A j \in at : j <= i

endswith(s, t) ==
    /\ Len(t) <= Len(s)
    /\ SubSeq(s, Len(s) - Len(t) + 1, Len(s)) = t

\* PurePath.suffix: from the last dot, unless it is the first or the last character.
suffix(name) ==
    LET i == rfind(name, ".")
    IN  IF 1 < i /\ i < Len(name) THEN SubSeq(name, i, Len(name)) ELSE <<>>

\* PurePath.stem
stem(name) ==
    LET i == rfind(name, ".")
    IN  IF 1 < i /\ i < Len(name) THEN SubSeq(name, 1, i - 1) ELSE name

\* The components of a path string: split at "/", empty components dropped.
RECURSIVE split(_)
split(s) ==
    LET cut == {i \in 1..Len(s) : s[i] = "/"}
    IN  IF cut = {} THEN (IF s = <<>> THEN <<>> ELSE <<s>>)
        ELSE LET i == CHOOSE k \in cut : \A j \in cut : k <= j
                 head == SubSeq(s, 1, i - 1)
                 rest == split(SubSeq(s, i + 1, Len(s)))
             IN  IF head = <<>> THEN rest ELSE <<head>> \o rest

\* Path / str: an absolute string replaces the base.
joinpath(base, s) ==
    IF s # <<>> /\ s[1] = "/" THEN split(s) ELSE base \o split(s)

\* Path(str).resolve(): relative strings are resolved against the working
\* directory, which is the root of the modelled tree.
resolve(s) == joinpath(<<>>, s)

\* str(path) of an absolute path.
RECURSIVE path_str(_)
path_str(p) == IF p = <<>> THEN <<>> ELSE <<"/">> \o p[1] \o path_str(Tail(p))

name_of(p) == p[Len(p)]
parent(p) == SubSeq(p, 1, Len(p) - 1)

is_prefix(d, p) == Len(d) <= Len(p) /\ SubSeq(p, 1, Len(d)) = d

----------------------------------------------------------------------------
(* The filesystem *)

is_dir(f, p) == p = <<>> \/ p \in f.dirs
is_file(f, p) == p \in DOMAIN f.files
exists(f, p) == is_dir(f, p) \/ is_file(f, p)

\* The names of the entries of directory d.
listdir(f, d) == {name_of(p) : p \in {q \in f.dirs \cup DOMAIN f.files : q # <<>> /\ parent(q) = d}}

prefixes(p) == {SubSeq(p, 1, i) : i \in 1..Len(p)}

\* Path.mkdir(parents=True, exist_ok=True): FileExistsError / NotADirectoryError
\* when a component of the path is a regular file.
mkdir_ok(f, p) == \A q \in prefixes(p) : ~is_file(f, q)
mkdir_p(f, p) == [f EXCEPT !.dirs = @ \cup prefixes(p)]

\* The content of file p written (created or truncated).
write_file(f, p, data) ==
    [f EXCEPT !.files = [q \in DOMAIN @ \cup {p} |-> IF q = p THEN data ELSE @[q]]]

----------------------------------------------------------------------------
(* Archives.  The content of a regular file is a string; the content of a  *)
(* zip archive names its members (ZipFile.namelist(), in archive order).   *)

n_a_svg == <<"a", ".", "s", "v", "g">>
n_b_txt == <<"b", ".", "t", "x", "t">>
n_icons_c_svg == <<"i", "c", "o", "n", "s", "/", "c", ".", "s", "v", "g">>
n_icon_svg == <<"i", "c", "o", "n", ".", "s", "v", "g">>
n_d_SVG == <<"d", ".", "S", "V", "G">>

members(data) ==
    CASE data = "zip:project" ->
             << [name |-> n_a_svg, data |-> "project/a"],
                [name |-> n_b_txt, data |-> "project/b"],
                [name |-> n_icons_c_svg, data |-> "project/c"] >>
      [] data = "zip:icon" ->
             << [name |-> n_icon_svg, data |-> "icon/icon"],
                [name |-> n_d_SVG, data |-> "icon/d"] >>
      [] data = "zip:q" ->
             << [name |-> n_a_svg, data |-> "q/a"] >>
      [] OTHER -> <<>>

\* zipfile.ZipFile(path) raises BadZipFile on a file that is no archive.
is_zipfile(data) == data \in {"zip:project", "zip:icon", "zip:q"}

\* ZipFile.extractall(path): the members in archive order; a member whose name
\* ends with "/" is a directory; the parents of a file are created; an
\* existing file is truncated.  The first member the host rejects (a regular
\* file where a directory is needed, a directory where the file goes) raises
\* and leaves the members already extracted in place.
RECURSIVE extractall(_, _, _)
extractall(f, path, ms) ==
    IF ms = <<>> THEN [raised |-> FALSE, fs |-> f]
    ELSE LET m == Head(ms)
             target == path \o split(m.name)
         IN  IF m.name[Len(m.name)] = "/"
             THEN IF mkdir_ok(f, target)
                  THEN extractall(mkdir_p(f, target), path, Tail(ms))
                  ELSE [raised |-> TRUE, fs |-> f]
             ELSE IF ~mkdir_ok(f, parent(target))
                  THEN [raised |-> TRUE, fs |-> f]
                  ELSE IF is_dir(f, target)
                       THEN [raised |-> TRUE, fs |-> mkdir_p(f, parent(target))]
                       ELSE extractall(write_file(mkdir_p(f, parent(target)), target, m.data),
                                       path, Tail(ms))

----------------------------------------------------------------------------
(* Outcomes of a handler: the list of TextContent it returns or the        *)
(* exception it raises, the filesystem it leaves, and a trace of what it   *)
(* did (which the code does not keep; the properties are stated on it).    *)

NoPath == <<None>>

Trace0 ==
    [touched |-> FALSE, zip_files |-> <<>>, latest |-> None, extract_path |-> NoPath, namelist |-> <<>>,
     extracted |-> FALSE, svg_files |-> <<>>, dest_dir |-> NoPath, moves |-> <<>>]

NoExc == [cls |-> "", msg |-> ""]

raise(f, cls, msg, tr) ==
    [raised |-> TRUE, exc |-> [cls |-> cls, msg |-> msg], result |-> <<>>, fs |-> f, trace |-> tr]

return(f, text, tr) ==
    [raised |-> FALSE, exc |-> NoExc, result |-> <<[type |-> "text", text |-> text]>>,
     fs |-> f, trace |-> tr]

\* dict.get(key) and dict.get(key, default)
get(args, k) == IF k \in DOMAIN args THEN args[k] ELSE None
get_or(args, k, d) == IF k \in DOMAIN args THEN args[k] ELSE d

\* `value == ""` for `not value`: a missing field passes.
truthy_unless_empty(v) == v # <<>>

\* `not value` is false of a non-empty string only.
truthy(v) == v # None /\ v # <<>>

str_downloads == <<"d", "o", "w", "n", "l", "o", "a", "d", "s">>
str_documents == <<"d", "o", "c", "u", "m", "e", "n", "t", "s">>

----------------------------------------------------------------------------
(* unzip_file *)

\* The archive extracted into the destination root itself.
extract_target_root(dest_dir, zip_path) == dest_dir

\* extract_path = dest_dir / zip_path.stem
extract_target(dest_dir, zip_path) == Append(dest_dir, stem(name_of(zip_path)))

handle_unzip(f, args) ==
    LET filename == get(args, "filename")
        zip_path == joinpath(DOWNLOADS_DIR, filename)
        dest == lower(args["destination"])
        dest_dir == IF "destination" \in DOMAIN args
                    THEN IF dest = str_downloads THEN DOWNLOADS_DIR
                         ELSE IF dest = str_documents THEN DOCUMENTS_DIR
                         ELSE resolve(args["destination"])
                    ELSE DOWNLOADS_DIR
        extract_path == extract_target(dest_dir, zip_path)
        t1 == [Trace0 EXCEPT !.touched = TRUE]
        t2 == [t1 EXCEPT !.extract_path = extract_path]
        f1 == mkdir_p(f, extract_path)
        file_list == [i \in 1..Len(members(f.files[zip_path])) |-> members(f.files[zip_path])[i].name]
        x == extractall(f1, extract_path, members(f.files[zip_path]))
    IN  IF ~truthy(filename)
        THEN {raise(f, "ValueError", "filename is required", Trace0)}
        ELSE IF ~exists(f, zip_path)
        THEN {raise(f, "ValueError", "Zip file not found", t1)}
        ELSE IF "destination" \in DOMAIN args /\ args["destination"] = None
        THEN {raise(f, "AttributeError", "'NoneType' object has no attribute 'lower'", t1)}
        ELSE IF ~mkdir_ok(f, extract_path)
        THEN {raise(f, "FileExistsError", "File exists", t2)}
        ELSE IF ~is_file(f1, zip_path)
        THEN {raise(f1, "IsADirectoryError", "Is a directory", t2)}
        ELSE IF ~is_zipfile(f.files[zip_path])
        THEN {raise(f1, "BadZipFile", "File is not a zip file", t2)}
        ELSE IF x.raised
        THEN {raise(x.fs, "OSError", "extraction failed", [t2 EXCEPT !.namelist = file_list])}
        ELSE {return(x.fs,
                     [head |-> "Successfully unzipped ", filename |-> filename,
                      to |-> extract_path, count |-> Len(file_list), names |-> file_list],
                     [t2 EXCEPT !.namelist = file_list, !.extracted = TRUE])}

----------------------------------------------------------------------------
(* find_files and the relocation loop *)

\* Every enumeration of the finite set S: the orders in which the host may
\* list it.
Orders(S) ==
    {s \in [1..Cardinality(S) -> S] : \A i, j \in 1..Cardinality(S) : s[i] = s[j] => i = j}

\* find_files with rglob("*"): the extension is not looked at.
find_files_any(f, directory, extension) ==
    Orders({p \in DOMAIN f.files : is_prefix(directory, p) /\ p # directory})

\* find_files matching the extension without regard to case.
find_files_nocase(f, directory, extension) ==
    Orders({p \in DOMAIN f.files :
                /\ is_prefix(directory, p)
                /\ p # directory
                /\ endswith(lower(name_of(p)), lower(extension))})

\* directory.rglob("*" + extension), kept when is_file(): the regular files
\* below `directory` whose name ends with `extension`, in enumeration order.
find_files(f, directory, extension) ==
    Orders({p \in DOMAIN f.files :
                /\ is_prefix(directory, p)
                /\ p # directory
                /\ endswith(name_of(p), extension)})

\* probe with `if` for `while`: a second collision is not looked for.
probe_once(f, dest_dir, svg_path, final_dest_path, counter) ==
    IF exists(f, final_dest_path)
    THEN joinpath(dest_dir, stem(name_of(svg_path)) \o <<"_">> \o str(counter)
                                \o suffix(name_of(svg_path)))
    ELSE final_dest_path

\* probe with the counter used after it is incremented: the numbering starts at 2.
RECURSIVE probe_skip(_, _, _, _, _)
probe_skip(f, dest_dir, svg_path, final_dest_path, counter) ==
    IF exists(f, final_dest_path)
    THEN probe_skip(f, dest_dir, svg_path,
                    joinpath(dest_dir, stem(name_of(svg_path)) \o <<"_">> \o str(counter + 1)
                                           \o suffix(name_of(svg_path))),
                    counter + 1)
    ELSE final_dest_path

\* The while loop that handles duplicate file names: the first of
\* name, stem_1suffix, stem_2suffix, ... that does not exist in dest_dir.
RECURSIVE probe(_, _, _, _, _)
probe(f, dest_dir, svg_path, final_dest_path, counter) ==
    IF exists(f, final_dest_path)
    THEN probe(f, dest_dir, svg_path,
               joinpath(dest_dir, stem(name_of(svg_path)) \o <<"_">> \o str(counter)
                                      \o suffix(name_of(svg_path))),
               counter + 1)
    ELSE final_dest_path

\* A rename that leaves the source in place (a copy).
rename_copy(f, src, dst) ==
    [f EXCEPT !.files = [q \in DOMAIN @ \cup {dst} |-> IF q = dst THEN @[src] ELSE @[q]]]

\* Path.rename (os.rename on a POSIX host): fails when the source is gone,
\* when the target's directory does not exist and when the target is a
\* directory; an existing regular file at the target is replaced silently.
rename_error(f, src, dst) ==
    IF ~is_file(f, src) THEN "FileNotFoundError"
    ELSE IF is_file(f, parent(dst)) THEN "NotADirectoryError"
    ELSE IF ~is_dir(f, parent(dst)) THEN "FileNotFoundError"
    ELSE IF is_dir(f, dst) THEN "IsADirectoryError"
    ELSE ""

rename(f, src, dst) ==
    [f EXCEPT !.files = [q \in (DOMAIN @ \ {src}) \cup {dst} |->
                             IF q = dst THEN @[src] ELSE @[q]]]

\* The renames of a loop taken back, the latest first.
RECURSIVE undo(_, _)
undo(f, moves) ==
    IF moves = <<>> THEN f
    ELSE undo(rename(f, moves[Len(moves)].dst, moves[Len(moves)].src),
              SubSeq(moves, 1, Len(moves) - 1))

\* The loop as a transaction: a rename that fails takes back the renames
\* already made.
RECURSIVE move_each_undo(_, _, _, _, _, _)
move_each_undo(f, svg_files, dest_dir, reject, moved_files, moves) ==
    IF svg_files = <<>>
    THEN [raised |-> FALSE, cls |-> "", fs |-> f, moved_files |-> moved_files, moves |-> moves]
    ELSE LET svg_path == Head(svg_files)
             dest_path == joinpath(dest_dir, name_of(svg_path))
             final_dest_path == probe(f, dest_dir, svg_path, dest_path, 1)
             err == IF reject = 1 THEN "PermissionError"
                    ELSE rename_error(f, svg_path, final_dest_path)
         IN  IF err # ""
             THEN [raised |-> TRUE, cls |-> err, fs |-> undo(f, moves),
                   moved_files |-> moved_files, moves |-> moves]
             ELSE move_each_undo(rename(f, svg_path, final_dest_path), Tail(svg_files),
                                 dest_dir, IF reject = 0 THEN 0 ELSE reject - 1,
                                 Append(moved_files, name_of(final_dest_path)),
                                 Append(moves, [src |-> svg_path, dst |-> final_dest_path,
                                                listing |-> listdir(f, dest_dir)]))

\* for svg_path in svg_files: probe, rename, append.  `reject` is the index of
\* the rename the host refuses (permission denied, cross-device), 0 for none.
\* The result carries moved_files and, per move, the source, the target and
\* the names dest_dir held when the rename was issued.
RECURSIVE move_each(_, _, _, _, _, _)
move_each(f, svg_files, dest_dir, reject, moved_files, moves) ==
    IF svg_files = <<>>
    THEN [raised |-> FALSE, cls |-> "", fs |-> f, moved_files |-> moved_files, moves |-> moves]
    ELSE LET svg_path == Head(svg_files)
             dest_path == joinpath(dest_dir, name_of(svg_path))
             final_dest_path == probe(f, dest_dir, svg_path, dest_path, 1)
             err == IF reject = 1 THEN "PermissionError"
                    ELSE rename_error(f, svg_path, final_dest_path)
         IN  IF err # ""
             THEN [raised |-> TRUE, cls |-> err, fs |-> f,
                   moved_files |-> moved_files, moves |-> moves]
             ELSE move_each(rename(f, svg_path, final_dest_path), Tail(svg_files), dest_dir,
                            IF reject = 0 THEN 0 ELSE reject - 1,
                            Append(moved_files, name_of(final_dest_path)),
                            Append(moves, [src |-> svg_path, dst |-> final_dest_path,
                                           listing |-> listdir(f, dest_dir)]))

----------------------------------------------------------------------------
(* move_svg_files *)

handle_move_svg(f, args) ==
    LET source_dir == IF "source" \in DOMAIN args THEN resolve(args["source"])
                      ELSE DOWNLOADS_DIR
        dest_dir == IF "subfolder" \in DOMAIN args
                    THEN joinpath(DOCUMENTS_DIR, args["subfolder"])
                    ELSE DOCUMENTS_DIR
        f1 == IF "subfolder" \in DOMAIN args THEN mkdir_p(f, dest_dir) ELSE f
        t1 == [Trace0 EXCEPT !.touched = TRUE]
        t2 == [t1 EXCEPT !.dest_dir = dest_dir]
    IN  IF ~exists(f, source_dir)
        THEN {raise(f, "ValueError", "Source directory not found", t1)}
        ELSE IF "subfolder" \in DOMAIN args /\ ~mkdir_ok(f, dest_dir)
        THEN {raise(f, "FileExistsError", "File exists", t2)}
        ELSE UNION {
            IF svg_files = <<>>
            THEN {return(f1, [head |-> "No SVG files found in ", dir |-> source_dir], t2)}
            ELSE { LET m == move_each(f1, svg_files, dest_dir, reject, <<>>, <<>>)
                       t3 == [t2 EXCEPT !.svg_files = svg_files, !.moves = m.moves]
                   IN  IF m.raised
                       THEN raise(m.fs, m.cls, "rename failed", t3)
                       ELSE return(m.fs,
                                   [head |-> "Successfully moved ",
                                    count |-> Len(m.moved_files), from |-> source_dir,
                                    to |-> dest_dir, names |-> m.moved_files],
                                   t3)
                   : reject \in 0..Len(svg_files) }
            : svg_files \in find_files(f1, source_dir, dot_svg) }

----------------------------------------------------------------------------
(* unzip_and_move_svgs *)

handle_unzip_and_move_svgs(f, args) ==
    LET filename == get(args, "filename")
        destination_folder == get(args, "destination_folder")
        zip_path == joinpath(DOWNLOADS_DIR, filename)
        extract_path == extract_target(DOWNLOADS_DIR, zip_path)
        t1 == [Trace0 EXCEPT !.touched = TRUE]
        t2 == [t1 EXCEPT !.extract_path = extract_path]
        f1 == mkdir_p(f, extract_path)
        ms == members(f.files[zip_path])
        total_files == Len(ms)
        x == extractall(f1, extract_path, ms)
        t3 == [t2 EXCEPT !.namelist = [i \in 1..Len(ms) |-> ms[i].name]]
        t4 == [t3 EXCEPT !.extracted = TRUE]
        dest_dir == joinpath(DOCUMENTS_DIR, destination_folder)
        f2 == mkdir_p(x.fs, dest_dir)
    IN  IF ~truthy(filename)
        THEN {raise(f, "ValueError", "filename is required", Trace0)}
        ELSE IF ~truthy(destination_folder)
        THEN {raise(f, "ValueError", "destination_folder is required", Trace0)}
        ELSE IF ~exists(f, zip_path)
        THEN {raise(f, "ValueError", "Zip file not found", t1)}
        ELSE IF ~mkdir_ok(f, extract_path)
        THEN {raise(f, "FileExistsError", "File exists", t2)}
        ELSE IF ~is_file(f1, zip_path)
        THEN {raise(f1, "IsADirectoryError", "Is a directory", t2)}
        ELSE IF ~is_zipfile(f.files[zip_path])
        THEN {raise(f1, "BadZipFile", "File is not a zip file", t2)}
        ELSE IF x.raised
        THEN {raise(x.fs, "OSError", "extraction failed", t3)}
        ELSE UNION {
            IF svg_files = <<>>
            THEN {return(x.fs,
                         [head |-> "Successfully unzipped ", filename |-> filename,
                          total |-> total_files, to |-> extract_path,
                          tail |-> "But no SVG files were found in the archive."],
                         t4)}
            ELSE IF ~mkdir_ok(x.fs, dest_dir)
            THEN {raise(x.fs, "FileExistsError", "File exists",
                        [t4 EXCEPT !.svg_files = svg_files, !.dest_dir = dest_dir])}
            ELSE { LET m == move_each(f2, svg_files, dest_dir, reject, <<>>, <<>>)
                       t5 == [t4 EXCEPT !.svg_files = svg_files, !.dest_dir = dest_dir,
                                        !.moves = m.moves]
                   IN  IF m.raised
                       THEN raise(m.fs, m.cls, "rename failed", t5)
                       ELSE return(m.fs,
                                   [head |-> "Success! ", filename |-> filename,
                                    total |-> total_files, found |-> Len(svg_files),
                                    to |-> destination_folder, names |-> m.moved_files],
                                   t5)
                   : reject \in 0..Len(svg_files) }
            : svg_files \in find_files(x.fs, extract_path, dot_svg) }

----------------------------------------------------------------------------
(* The handlers that read Downloads *)

\* f.stat().st_mtime
st_mtime(mt, p) == IF p \in DOMAIN mt THEN mt[p] ELSE 0

\* [f for f in DOWNLOADS_DIR.iterdir() if f.is_file() and f.suffix.lower() == ".zip"]
zip_files_of(f) ==
    Orders({p \in DOMAIN f.files :
                parent(p) = DOWNLOADS_DIR /\ lower(suffix(name_of(p))) = dot_zip})

\* max(zip_files, key=...): the first element whose key no other exceeds.
RECURSIVE max_from(_, _, _)
max_from(seq, mt, best) ==
    IF seq = <<>> THEN best
    ELSE max_from(Tail(seq), mt,
                  IF st_mtime(mt, Head(seq)) > st_mtime(mt, best) THEN Head(seq) ELSE best)

\* The first archive enumerated, whatever its modification time.
latest_of_first(zip_files, mt) == Head(zip_files)

latest_of(zip_files, mt) == max_from(Tail(zip_files), mt, Head(zip_files))

\* What handle_unzip_latest makes of the outcome of handle_unzip: the text
\* with "Successfully unzipped" replaced, an exception passed on.
relabel(o, zip_files, latest_zip) ==
    LET tr == [o.trace EXCEPT !.touched = TRUE, !.zip_files = zip_files,
                              !.latest = name_of(latest_zip)]
    IN  IF o.raised THEN [o EXCEPT !.trace = tr]
        ELSE return(o.fs,
                    [o.result[1].text EXCEPT
                         !.head = "Successfully unzipped the latest download: "],
                    tr)

handle_unzip_latest(f, mt, args) ==
    IF ~exists(f, DOWNLOADS_DIR)
    THEN {raise(f, "ValueError", "Downloads directory not found",
                [Trace0 EXCEPT !.touched = TRUE])}
    ELSE UNION {
        IF zip_files = <<>>
        THEN {raise(f, "ValueError", "No zip files found in Downloads",
                    [Trace0 EXCEPT !.touched = TRUE])}
        ELSE {relabel(o, zip_files, latest_of(zip_files, mt)) :
                o \in handle_unzip(f, [filename |-> name_of(latest_of(zip_files, mt)),
                                       destination |-> get(args, "destination")])}
        : zip_files \in zip_files_of(f) }

handle_unzip_latest_and_move_svgs(f, mt, args) ==
    LET destination_folder == get(args, "destination_folder")
    IN  IF ~truthy(destination_folder)
        THEN {raise(f, "ValueError", "destination_folder is required", Trace0)}
        ELSE IF ~exists(f, DOWNLOADS_DIR)
        THEN {raise(f, "ValueError", "Downloads directory not found",
                    [Trace0 EXCEPT !.touched = TRUE])}
        ELSE UNION {
            IF zip_files = <<>>
            THEN {raise(f, "ValueError", "No zip files found in Downloads",
                        [Trace0 EXCEPT !.touched = TRUE])}
            ELSE {[o EXCEPT !.trace.touched = TRUE, !.trace.zip_files = zip_files,
                            !.trace.latest = name_of(latest_of(zip_files, mt))] :
                    o \in handle_unzip_and_move_svgs(
                              f, [filename |-> name_of(latest_of(zip_files, mt)),
                                  destination_folder |-> destination_folder])}
            : zip_files \in zip_files_of(f) }

\* list.sort(key=modified, reverse=True): stable, newest first.
RECURSIVE insert_desc(_, _, _)
insert_desc(sorted, p, mt) ==
    IF sorted = <<>> THEN <<p>>
    ELSE IF st_mtime(mt, Head(sorted)) >= st_mtime(mt, p)
         THEN <<Head(sorted)>> \o insert_desc(Tail(sorted), p, mt)
         ELSE <<p>> \o sorted

RECURSIVE sort_desc(_, _, _)
sort_desc(seq, mt, acc) ==
    IF seq = <<>> THEN acc ELSE sort_desc(Tail(seq), mt, insert_desc(acc, Head(seq), mt))

\* seq[:limit]
slice_to(seq, limit) ==
    LET n == IF limit >= 0 THEN limit ELSE Len(seq) + limit
    IN  SubSeq(seq, 1, IF n > Len(seq) THEN Len(seq) ELSE n)

names_of(paths) == [i \in 1..Len(paths) |-> name_of(paths[i])]

handle_list_zip(f, mt, args) ==
    LET limit == get_or(args, "limit", 10)
    IN  IF ~exists(f, DOWNLOADS_DIR)
        THEN {raise(f, "ValueError", "Downloads directory not found",
                    [Trace0 EXCEPT !.touched = TRUE])}
        ELSE { IF zip_files = <<>>
               THEN return(f, [head |-> "No zip files found in ", dir |-> DOWNLOADS_DIR],
                           [Trace0 EXCEPT !.touched = TRUE])
               ELSE LET limited_files == slice_to(sort_desc(zip_files, mt, <<>>), limit)
                    IN  return(f, [head |-> "Found ", count |-> Len(zip_files),
                                   showing |-> Len(limited_files),
                                   names |-> names_of(limited_files)],
                               [Trace0 EXCEPT !.touched = TRUE])
               : zip_files \in zip_files_of(f) }

handle_list_svg(f, args) ==
    LET search_dir == IF "directory" \in DOMAIN args THEN resolve(args["directory"])
                      ELSE DOWNLOADS_DIR
    IN  IF ~exists(f, search_dir)
        THEN {raise(f, "ValueError", "Directory not found", [Trace0 EXCEPT !.touched = TRUE])}
        ELSE { IF svg_files = <<>>
               THEN return(f, [head |-> "No SVG files found in ", dir |-> search_dir],
                           [Trace0 EXCEPT !.touched = TRUE])
               ELSE return(f, [head |-> "Found ", count |-> Len(svg_files),
                               dir |-> search_dir,
                               names |-> [i \in 1..Len(svg_files) |->
                                            SubSeq(svg_files[i], Len(search_dir) + 1,
                                                   Len(svg_files[i]))]],
                           [Trace0 EXCEPT !.touched = TRUE, !.svg_files = svg_files])
               : svg_files \in find_files(f, search_dir, dot_svg) }

\* str.lstrip(".")
RECURSIVE lstrip_dot(_)
lstrip_dot(s) == IF s # <<>> /\ s[1] = "." THEN lstrip_dot(Tail(s)) ELSE s

handle_list_recent_downloads(f, mt, args) ==
    LET limit == get_or(args, "limit", 10)
        file_type == lower(get_or(args, "file_type", <<>>))
        wanted(p) == file_type = <<>> \/ lstrip_dot(lower(suffix(name_of(p)))) = file_type
    IN  IF ~exists(f, DOWNLOADS_DIR)
        THEN {raise(f, "ValueError", "Downloads directory not found",
                    [Trace0 EXCEPT !.touched = TRUE])}
        ELSE { IF file_details = <<>>
               THEN return(f, [head |-> "No files found in Downloads", type |-> file_type],
                           [Trace0 EXCEPT !.touched = TRUE])
               ELSE LET limited_files == slice_to(sort_desc(file_details, mt, <<>>), limit)
                    IN  return(f, [head |-> "Recent downloads", type |-> file_type,
                                   showing |-> Len(limited_files),
                                   count |-> Len(file_details),
                                   names |-> names_of(limited_files)],
                               [Trace0 EXCEPT !.touched = TRUE])
               : file_details \in Orders({p \in DOMAIN f.files :
                                             parent(p) = DOWNLOADS_DIR /\ wanted(p)}) }

----------------------------------------------------------------------------
(* The dispatcher *)

TOOLS ==
    {"unzip_file", "move_svg_files", "list_zip_files", "list_svg_files",
     "unzip_and_move_svgs", "list_recent_downloads", "unzip_latest",
     "unzip_latest_and_move_svgs"}

\* The handler the name selects; an unknown name raises ValueError.
dispatch(name, f, mt, args) ==
    CASE name = "unzip_file" -> handle_unzip(f, args)
      [] name = "move_svg_files" -> handle_move_svg(f, args)
      [] name = "list_zip_files" -> handle_list_zip(f, mt, args)
      [] name = "list_svg_files" -> handle_list_svg(f, args)
      [] name = "unzip_and_move_svgs" -> handle_unzip_and_move_svgs(f, args)
      [] name = "list_recent_downloads" -> handle_list_recent_downloads(f, mt, args)
      [] name = "unzip_latest" -> handle_unzip_latest(f, mt, args)
      [] name = "unzip_latest_and_move_svgs" -> handle_unzip_latest_and_move_svgs(f, mt, args)
      [] OTHER -> {raise(f, "ValueError", "Unknown tool", Trace0)}

\* except ValueError as e
caught_value_error(cls) == cls = "ValueError"

\* except Exception as e: every exception class a handler raises derives from
\* Exception.
caught(cls) == TRUE

\* call_tool: what its caller gets for one outcome of the handler.
respond(name, args, f, o) ==
    [name |-> name, args |-> args, pre |-> f, raised |-> o.raised, exc |-> o.exc,
     trace |-> o.trace,
     propagated |-> o.raised /\ ~caught(o.exc.cls),
     result |-> IF ~o.raised THEN o.result
                ELSE IF caught(o.exc.cls)
                THEN <<[type |-> "text", text |-> [head |-> "Error: ", msg |-> o.exc.msg]]>>
                ELSE <<>>]

\* The tools that only read the tree.
READ_ONLY == {"list_zip_files", "list_svg_files", "list_recent_downloads", "delete_file"}

call_tool(name, args) ==
    /\ name \in READ_ONLY \/ calls < MaxCalls
    /\ \E o \in dispatch(name, fs, mtime, args) :
           /\ fs' = o.fs
           /\ last' = respond(name, args, fs, o)
    /\ calls' = IF name \in READ_ONLY THEN calls ELSE calls + 1
    /\ UNCHANGED mtime

----------------------------------------------------------------------------
(* The requests the model issues *)

Absent == <<"absent">>
EmptyBag == [k \in {} |-> k]

\* The argument bag with field k set to v, or without it.
opt(k, v) == IF v = Absent THEN EmptyBag ELSE k :> v

n_p_zip == <<"p", ".", "z", "i", "p">>
n_p_ZIP == <<"p", ".", "Z", "I", "P">>
n_r_txt == <<"r", ".", "t", "x", "t">>
n_q_jar == <<"q", ".", "j", "a", "r">>
n_DH == <<"D", "H">>
n_out == <<"o", "u", "t">>

FilenameChoices == {Absent, n_p_zip, n_p_ZIP, n_q_jar, n_r_txt}
DestinationChoices == {Absent, Downloads}
SourceChoices == {Absent, path_str(DOCUMENTS_DIR)}
FolderChoices == {Absent, n_DH}


UnzipFile ==
    \E fn \in FilenameChoices, d \in DestinationChoices :
           call_tool("unzip_file", opt("filename", fn) @@ opt("destination", d))

MoveSvgFiles ==
    \E src \in SourceChoices, sub \in FolderChoices :
           call_tool("move_svg_files", opt("source", src) @@ opt("subfolder", sub))

ListZipFiles ==
    \E args \in {"limit" :> 1} : call_tool("list_zip_files", args)

ListSvgFiles ==
    \E d \in {Absent} :
        call_tool("list_svg_files", opt("directory", d))

UnzipAndMoveSvgs ==
    \E fn \in FilenameChoices, d \in FolderChoices :
           call_tool("unzip_and_move_svgs",
                     opt("filename", fn) @@ opt("destination_folder", d))

ListRecentDownloads ==
    \E args \in {"file_type" :> <<"Z", "I", "P">>} :
        call_tool("list_recent_downloads", args)

UnzipLatest ==
    \E d \in DestinationChoices : call_tool("unzip_latest", opt("destination", d))

UnzipLatestAndMoveSvgs ==
    \E d \in FolderChoices :
           call_tool("unzip_latest_and_move_svgs", opt("destination_folder", d))

UnknownTool == call_tool("delete_file", EmptyBag)

\* The files Downloads may hold at the start.
DownloadFiles ==
    (<<Downloads, n_p_zip>> :> "zip:project") @@ (<<Downloads, n_p_ZIP>> :> "zip:icon")
        @@ (<<Downloads, n_q_jar>> :> "zip:q") @@ (<<Downloads, n_r_txt>> :> "text")

\* Documents at the start: missing, or holding DH/icon.svg from earlier use.
DocumentsChoices ==
    { [dirs |-> {}, files |-> EmptyBag],
      [dirs |-> {DOCUMENTS_DIR, <<Documents, n_DH>>},
       files |-> (<<Documents, n_DH, n_icon_svg>> :> "old")] }

NoCall(f) ==
    [name |-> "", args |-> EmptyBag, pre |-> f, raised |-> FALSE, exc |-> NoExc,
     trace |-> Trace0,
     propagated |-> FALSE, result |-> <<>>]

\* The modification times of the archives: equal, or either one the newer.
TimeChoices(zips) ==
    {mt \in [zips -> 1..2] : zips = {} \/ \E p \in zips : mt[p] = 1}

\* Downloads exists and holds r.txt (no archive) and q.jar (an archive under
\* another extension), the newest files, and some of p.zip and p.ZIP.
Init ==
    \E zips \in SUBSET {<<Downloads, n_p_zip>>, <<Downloads, n_p_ZIP>>},
       docs \in DocumentsChoices :
        /\ fs = [dirs |-> {DOWNLOADS_DIR} \cup docs.dirs,
                 files |-> [p \in zips \cup {<<Downloads, n_q_jar>>, <<Downloads, n_r_txt>>}
                               |-> DownloadFiles[p]]
                               @@ docs.files]
        /\ \E mt \in TimeChoices(zips) :
               mtime = mt @@ (<<Downloads, n_q_jar>> :> 3) @@ (<<Downloads, n_r_txt>> :> 3)
        /\ last = NoCall(fs)
        /\ calls = 0

Next ==
    \/ UnzipFile
    \/ MoveSvgFiles
    \/ ListZipFiles
    \/ ListSvgFiles
    \/ UnzipAndMoveSvgs
    \/ ListRecentDownloads
    \/ UnzipLatest
    \/ UnzipLatestAndMoveSvgs
    \/ UnknownTool

Spec == Init /\ [][Next]_vars

----------------------------------------------------------------------------
(* Properties.  `last` is the latest request: its name and arguments, the  *)
(* tree before it (pre), what the caller got and the trace of the handler; *)
(* fs is the tree after it.                                                *)

Called == last.name # ""

Relocating == last.name \in {"move_svg_files", "unzip_and_move_svgs", "unzip_latest_and_move_svgs"}

Moves == {last.trace.moves[i] : i \in 1..Len(last.trace.moves)}

\* The regular files directory d held before the request.
HeldBefore(d) == {p \in DOMAIN last.pre.files : parent(p) = d}

Kept(p) == p \in DOMAIN fs.files /\ fs.files[p] = last.pre.files[p]

\* Every rename went to a name its directory did not hold.
TargetsAbsent == \A m \in Moves : name_of(m.dst) \notin m.listing /\ parent(m.dst) = last.trace.dest_dir

\* C1 as claimed: no relocation overwrites a file: the final name is absent
\* from the destination when the file is moved, so every file the destination
\* held before the operation is still there, same name, same content.
C1_DestinationUntouched ==
    Relocating =>
        /\ TargetsAbsent
        /\ \A p \in HeldBefore(last.trace.dest_dir) : Kept(p)

\* C1 amended: the final name is absent from the destination when the file is
\* moved, and every file the destination held before the operation, other
\* than the files the operation itself relocated (the source tree may contain
\* the destination), is still there, same name, same content.
C1_NoOverwrite ==
    Relocating =>
        /\ TargetsAbsent
        /\ \A p \in HeldBefore(last.trace.dest_dir) :
               p \notin {m.src : m \in Moves} => Kept(p)

\* A relocation into a directory that held a file of the same name.
C1_Witness ==
    /\ Relocating
    /\ ~last.raised
    /\ \E m \in Moves : name_of(m.src) \in m.listing /\ m.src \notin HeldBefore(last.trace.dest_dir)
    /\ HeldBefore(last.trace.dest_dir) # {}

n_icon_1_svg == <<"i", "c", "o", "n", "_", "1", ".", "s", "v", "g">>
n_icon_2_svg == <<"i", "c", "o", "n", "_", "2", ".", "s", "v", "g">>

\* <stem>_<k><suffix>
numbered(name, k) == stem(name) \o <<"_">> \o str(k) \o suffix(name)

\* C2: a file keeps its name when the destination does not hold it; otherwise
\* it is named <stem>_<k><suffix> for the smallest k >= 1 that the destination
\* does not hold.  icon.svg becomes icon_1.svg next to icon.svg, and
\* icon_2.svg next to icon.svg and icon_1.svg.
C2_CollisionLaw ==
    Relocating =>
        \A m \in Moves :
            LET name == name_of(m.src)
                final == name_of(m.dst)
            IN  /\ name \notin m.listing => final = name
                /\ name \in m.listing =>
                       \E k \in 1..(Cardinality(m.listing) + 1) :
                           /\ final = numbered(name, k)
                           /\ final \notin m.listing
                           /\ \A j \in 1..(k - 1) : numbered(name, j) \in m.listing
                /\ (name = n_icon_svg /\ n_icon_svg \in m.listing
                        /\ n_icon_1_svg \notin m.listing) => final = n_icon_1_svg
                /\ (name = n_icon_svg /\ {n_icon_svg, n_icon_1_svg} \subseteq m.listing
                        /\ n_icon_2_svg \notin m.listing) => final = n_icon_2_svg

\* A second icon.svg relocated next to icon.svg and icon_1.svg.
C2_Witness ==
    /\ Relocating
    /\ ~last.raised
    /\ \E m \in Moves : name_of(m.src) = n_icon_svg /\ name_of(m.dst) = n_icon_2_svg
    /\ \E p \in DOMAIN fs.files : name_of(p) = n_icon_1_svg /\ parent(p) = last.trace.dest_dir

----------------------------------------------------------------------------
(* extract-and-relocate *)

ExtractAndRelocate == last.name \in {"unzip_and_move_svgs", "unzip_latest_and_move_svgs"}

\* The archive the request worked on: the file it names, or the latest.
ArchiveName ==
    IF last.name \in {"unzip_latest", "unzip_latest_and_move_svgs"} THEN last.trace.latest
    ELSE last.args["filename"]

ArchiveMembers ==
    LET ms == members(last.pre.files[Append(DOWNLOADS_DIR, ArchiveName)])
    IN  {ms[i] : i \in 1..Len(ms)}

\* Where a member lies after extraction.
Extracted(m) == last.trace.extract_path \o split(m.name)

IsSvgName(name) ==
    Len(name) >= 4 /\ SubSeq(name, Len(name) - 3, Len(name)) = <<".", "s", "v", "g">>

\* C3 as claimed: after a successful extract-and-relocate the extraction
\* directory holds every member of the archive.
C3_AllEntriesRemain ==
    (ExtractAndRelocate /\ ~last.raised) =>
        \A m \in ArchiveMembers : is_file(fs, Extracted(m))

\* C3 amended: after a successful extract-and-relocate (into a folder below
\* Documents) the extraction directory holds every member of the archive
\* whose name does not end with ".svg", with the member's content; a member
\* whose name ends with ".svg" has been moved out of it, into the destination.
C3_NonSvgEntriesRemain ==
    (ExtractAndRelocate /\ ~last.raised) =>
        /\ parent(last.trace.extract_path) = DOWNLOADS_DIR
        /\ \A m \in ArchiveMembers :
               IF IsSvgName(m.name)
               THEN /\ ~exists(fs, Extracted(m))
                    /\ \E mv \in Moves :
                           /\ mv.src = Extracted(m)
                           /\ parent(mv.dst) = DOCUMENTS_DIR \o split(last.args["destination_folder"])
                           /\ is_file(fs, mv.dst) /\ fs.files[mv.dst] = m.data
               ELSE is_file(fs, Extracted(m)) /\ fs.files[Extracted(m)] = m.data

\* p.zip (a.svg, b.txt, icons/c.svg) extracted and its two .svg files moved.
C3_Witness ==
    /\ ExtractAndRelocate
    /\ ~last.raised
    /\ ArchiveName = n_p_zip
    /\ Len(last.trace.moves) = 2
    /\ is_file(fs, <<Downloads, <<"p">>, n_b_txt>>)
    /\ ~exists(fs, <<Downloads, <<"p">>, n_a_svg>>)

\* The regular files directory d holds.
Held(d) == {p \in DOMAIN fs.files : parent(p) = d}

Contents(paths) == {fs.files[p] : p \in paths}

Text == last.result[1].text

\* C4 as claimed: after a successful extract-and-relocate into a folder that
\* held no files, the folder holds exactly one file per member whose name ends
\* with ".svg" and nothing else; the message reports the number of members and
\* the number of .svg files.
C4_ExactlyArchiveSvgs ==
    (ExtractAndRelocate /\ ~last.raised /\ "found" \in DOMAIN Text
         /\ HeldBefore(last.trace.dest_dir) = {}) =>
        LET svgs == {m \in ArchiveMembers : IsSvgName(m.name)}
            held == Held(last.trace.dest_dir)
        IN  /\ Cardinality(held) = Cardinality(svgs)
            /\ Contents(held) = {m.data : m \in svgs}
            /\ Text.total = Cardinality(ArchiveMembers)
            /\ Text.found = Cardinality(svgs)

\* The .svg files below the extraction directory once the archive is
\* extracted: the archive's, and those that were there before.
SvgsBelow ==
    {Extracted(m) : m \in {x \in ArchiveMembers : IsSvgName(x.name)}}
        \cup {p \in DOMAIN last.pre.files :
                  /\ is_prefix(last.trace.extract_path, p)
                  /\ p # last.trace.extract_path
                  /\ IsSvgName(name_of(p))}

ContentBelow(p) ==
    IF \E m \in ArchiveMembers : Extracted(m) = p
    THEN (CHOOSE m \in ArchiveMembers : Extracted(m) = p).data
    ELSE last.pre.files[p]

\* C4 amended: after a successful extract-and-relocate into a folder that
\* held no files, the folder holds exactly one file per .svg file (name ending
\* with ".svg", case-sensitive, at any depth) found below the extraction
\* directory after the extraction, that is the archive's .svg members and any
\* .svg file the extraction directory already held, and no other file; the
\* message reports the number of members of the archive and the number of
\* .svg files found below the extraction directory.
C4_ExactlyFoundSvgs ==
    (ExtractAndRelocate /\ ~last.raised /\ "found" \in DOMAIN Text
         /\ HeldBefore(last.trace.dest_dir) = {}) =>
        LET held == Held(last.trace.dest_dir)
        IN  /\ last.trace.dest_dir = DOCUMENTS_DIR \o split(last.args["destination_folder"])
            /\ Cardinality(held) = Cardinality(SvgsBelow)
            /\ Contents(held) = {ContentBelow(p) : p \in SvgsBelow}
            /\ \A p \in held : IsSvgName(name_of(p))
            /\ Contents(held) \cap {"project/b", "icon/d", "text"} = {}
            /\ Text.total = Cardinality(ArchiveMembers)
            /\ Text.found = Cardinality(SvgsBelow)

\* p.zip relocated into an empty DH: a.svg and c.svg, 3 members, 2 .svg files.
C4_Witness ==
    /\ ExtractAndRelocate
    /\ ~last.raised
    /\ ArchiveName = n_p_zip
    /\ HeldBefore(last.trace.dest_dir) = {}
    /\ Held(<<Documents, n_DH>>) = {<<Documents, n_DH, n_a_svg>>, <<Documents, n_DH, <<"c", ".", "s", "v", "g">>>>}
    /\ Text.total = 3
    /\ Text.found = 2

----------------------------------------------------------------------------
(* The latest archive, missing arguments, the dispatcher *)

\* The archives of Downloads before the request: the regular files whose
\* extension is .zip in any case.
ZipsBefore ==
    {p \in DOMAIN last.pre.files :
         /\ parent(p) = DOWNLOADS_DIR
         /\ Len(name_of(p)) > 4
         /\ lower(SubSeq(name_of(p), Len(name_of(p)) - 3, Len(name_of(p)))) = <<".", "z", "i", "p">>}

\* C5: unzip_latest without a destination, Downloads holding an archive,
\* succeeds and extracts the latest archive below Downloads, as unzip_file
\* without a destination does.
C5_LatestDefaultsToDownloads ==
    (last.name = "unzip_latest" /\ "destination" \notin DOMAIN last.args /\ ZipsBefore # {}) =>
        /\ ~last.raised
        /\ last.trace.extracted
        /\ parent(last.trace.extract_path) = DOWNLOADS_DIR
        /\ \E o \in handle_unzip(last.pre, [filename |-> last.trace.latest]) : fs = o.fs

MissingRequired ==
    \/ last.name = "unzip_file" /\ "filename" \notin DOMAIN last.args
    \/ last.name = "unzip_and_move_svgs"
           /\ ~({"filename", "destination_folder"} \subseteq DOMAIN last.args)
    \/ last.name = "unzip_latest_and_move_svgs" /\ "destination_folder" \notin DOMAIN last.args

\* C6: unzip_file without filename, unzip_and_move_svgs without filename or
\* destination_folder, unzip_latest_and_move_svgs without destination_folder
\* fail with the missing-argument error before any access to the filesystem,
\* which they leave as it was.
C6_MissingArgument ==
    MissingRequired =>
        /\ last.raised
        /\ Text = [head |-> "Error: ",
                   msg |-> IF last.name = "unzip_latest_and_move_svgs"
                              \/ "filename" \in DOMAIN last.args
                           THEN "destination_folder is required"
                           ELSE "filename is required"]
        /\ ~last.trace.touched
        /\ fs = last.pre

\* unzip_and_move_svgs naming an archive that exists, without destination_folder.
C6_Witness ==
    /\ last.name = "unzip_and_move_svgs"
    /\ "destination_folder" \notin DOMAIN last.args
    /\ "filename" \in DOMAIN last.args
    /\ is_file(last.pre, Append(DOWNLOADS_DIR, last.args["filename"]))
    /\ last.raised
    /\ fs = last.pre

\* C7: whatever the name and the arguments, the dispatcher returns exactly one
\* text and passes no exception to its caller; a failure of a handler and an
\* unknown name come back as a text that starts with "Error: ".
C7_AlwaysOneText ==
    Called =>
        /\ Len(last.result) = 1
        /\ last.result[1].type = "text"
        /\ ~last.propagated
        /\ last.raised => Text.head = "Error: "
        /\ last.name \notin TOOLS => last.raised

\* A handler raised something other than ValueError and the caller got the text.
C7_Witness ==
    /\ last.name \in TOOLS
    /\ last.raised
    /\ last.exc.cls \notin {"", "ValueError"}
    /\ Len(last.result) = 1
    /\ Text.head = "Error: "

----------------------------------------------------------------------------
(* Where an archive is extracted *)

Below(d) == {p \in DOMAIN fs.files : is_prefix(d, p) /\ p # d}

\* The archive contents a file may come from.
origin(data) ==
    {z \in {"zip:project", "zip:icon", "zip:q"} :
         \E i \in 1..Len(members(z)) : members(z)[i].data = data}

\* C8 as claimed: an extraction writes into <root>/<archive name minus its
\* extension>, so archives of different file names never extract into the same
\* directory: the directory holds nothing of an archive of another name.
C8_DifferentNamesApart ==
    last.trace.extracted =>
        /\ parent(last.trace.extract_path) # <<>>
        /\ \A p \in Below(last.trace.extract_path) :
               \A z \in ZipsBefore \cup {<<Downloads, n_q_jar>>} :
                   last.pre.files[z] \in origin(fs.files[p]) => name_of(z) = ArchiveName

\* The destination root the request names.
Root ==
    IF last.name \in {"unzip_file", "unzip_latest"} /\ "destination" \in DOMAIN last.args
    THEN CASE last.args["destination"] = Downloads -> DOWNLOADS_DIR
           [] last.args["destination"] = Documents -> DOCUMENTS_DIR
           [] OTHER -> <<last.args["destination"]>>
    ELSE DOWNLOADS_DIR

NameMinusExtension(name) ==
    CASE name \in {n_p_zip, n_p_ZIP} -> <<"p">>
      [] name = n_q_jar -> <<"q">>
      [] name = n_r_txt -> <<"r">>

\* C8 amended: an extraction writes into <root>/<archive name minus its
\* extension> and never directly into the root, so archives whose names minus
\* the extension differ never extract into the same directory (p.zip and
\* p.ZIP, which differ in the extension only, do).
C8_ExtractsBelowRoot ==
    last.trace.extracted =>
        /\ last.trace.extract_path = Append(Root, NameMinusExtension(ArchiveName))
        /\ \A p \in DOMAIN fs.files \cup DOMAIN last.pre.files :
               parent(p) = Root => (p \in DOMAIN last.pre.files /\ Kept(p))
        /\ \A m \in ArchiveMembers :
               (IsSvgName(m.name) /\ Relocating) \/ fs.files[Extracted(m)] = m.data
        /\ \A p \in Below(last.trace.extract_path) :
               \A z \in ZipsBefore \cup {<<Downloads, n_q_jar>>} :
                   last.pre.files[z] \in origin(fs.files[p])
                       => NameMinusExtension(name_of(z)) = name_of(last.trace.extract_path)

\* p.ZIP extracted into the directory that holds what p.zip was extracted to,
\* next to the directory of q.jar.
C8_Witness ==
    /\ last.trace.extracted
    /\ ArchiveName = n_p_ZIP
    /\ last.trace.extract_path = <<Downloads, <<"p">>>>
    /\ is_file(fs, <<Downloads, <<"p">>, n_b_txt>>)
    /\ is_file(fs, <<Downloads, <<"p">>, n_d_SVG>>)

\* C9: a relocating operation creates the destination directory and its
\* parents before the first move, so no move fails because the destination
\* directory does not exist.
C9_DestinationCreated ==
    (Relocating /\ last.trace.svg_files # <<>>) =>
        ~(last.raised /\ last.exc.cls = "FileNotFoundError"
              /\ ~is_dir(fs, last.trace.dest_dir))

\* The archives in the order the host enumerated them.
ZipSeq == last.trace.zip_files

Latest == last.name \in {"unzip_latest", "unzip_latest_and_move_svgs"} /\ ~MissingRequired

\* C10: the latest operations work on the archive of Downloads (extension
\* .zip) with the greatest modification time, the first enumerated among
\* equals, and fail with "No zip files found", extracting nothing, when
\* Downloads holds no archive.
C10_LatestArchive ==
    Latest =>
        IF ZipsBefore = {}
        THEN /\ last.raised
             /\ Text = [head |-> "Error: ", msg |-> "No zip files found in Downloads"]
             /\ fs = last.pre
        ELSE /\ {ZipSeq[i] : i \in 1..Len(ZipSeq)} = ZipsBefore
             /\ \E i \in 1..Len(ZipSeq) :
                    /\ last.trace.latest = name_of(ZipSeq[i])
                    /\ \A j \in 1..Len(ZipSeq) : mtime[ZipSeq[j]] <= mtime[ZipSeq[i]]
                    /\ \A j \in 1..(i - 1) : mtime[ZipSeq[j]] < mtime[ZipSeq[i]]
             /\ last.trace.extract_path # NoPath =>
                    last.trace.extract_path = <<Downloads, NameMinusExtension(last.trace.latest)>>
             /\ last.trace.extracted =>
                    last.trace.namelist =
                        [i \in 1..Len(members(last.pre.files[<<Downloads, last.trace.latest>>]))
                            |-> members(last.pre.files[<<Downloads, last.trace.latest>>])[i].name]

\* Two archives, the second enumerated being the newer, and it was extracted.
C10_Witness ==
    /\ Latest
    /\ Len(ZipSeq) = 2
    /\ mtime[ZipSeq[1]] < mtime[ZipSeq[2]]
    /\ last.trace.latest = name_of(ZipSeq[2])
    /\ last.trace.extracted

----------------------------------------------------------------------------
(* The steps of extract-and-relocate *)

Found == last.trace.svg_files

Done == last.trace.moves

\* C11: extract-and-relocate runs extract, find, create destination, move
\* each match, in this order, and stops at the first step that fails with an
\* error result; what the steps before it did stays: the extraction directory
\* and the members extracted, the files moved before a failing move at their
\* destination, the files not yet moved in the extraction directory.
C11_AbortKeepsEffects ==
    ExtractAndRelocate =>
        /\ Len(Done) <= Len(Found)
        /\ \A i \in 1..Len(Done) : Done[i].src = Found[i]
        /\ Found # <<>> => last.trace.extracted
        /\ last.trace.dest_dir # NoPath => Found # <<>>
        /\ Done # <<>> => is_dir(fs, last.trace.dest_dir)
        /\ last.trace.extracted => is_dir(fs, last.trace.extract_path)
        /\ ~last.raised => Len(Done) = Len(Found)
        /\ last.raised =>
               /\ Len(last.result) = 1
               /\ last.result[1].type = "text"
               /\ last.result[1].text.head = "Error: "
               /\ Found # <<>> => Len(Done) < Len(Found)
               /\ (last.trace.extract_path # NoPath
                      /\ mkdir_ok(last.pre, last.trace.extract_path)) =>
                      is_dir(fs, last.trace.extract_path)
               /\ last.trace.extracted =>
                      \A m \in ArchiveMembers :
                          ~IsSvgName(m.name) =>
                              /\ is_file(fs, Extracted(m))
                              /\ fs.files[Extracted(m)] = m.data
               /\ \A i \in 1..Len(Done) :
                      /\ ~is_file(fs, Done[i].src)
                      /\ parent(Done[i].dst) = last.trace.dest_dir
                      /\ is_file(fs, Done[i].dst)
                      /\ fs.files[Done[i].dst] = ContentBelow(Done[i].src)
               /\ \A i \in (Len(Done) + 1)..Len(Found) :
                      /\ is_prefix(last.trace.extract_path, Found[i])
                      /\ is_file(fs, Found[i])
                      /\ fs.files[Found[i]] = ContentBelow(Found[i])

\* The second of two moves failed: the first file is in the destination, the
\* second still in the extraction directory, and the caller got an error.
C11_Witness ==
    /\ ExtractAndRelocate
    /\ last.raised
    /\ last.trace.extracted
    /\ Len(Found) = 2
    /\ Len(Done) = 1
    /\ is_file(fs, Done[1].dst)
    /\ is_file(fs, Found[2])

----------------------------------------------------------------------------
(* What a successful relocation leaves *)

\* The directory the request searched.
SourceDir ==
    IF last.name = "move_svg_files"
    THEN IF "source" \in DOMAIN last.args THEN resolve(last.args["source"]) ELSE DOWNLOADS_DIR
    ELSE last.trace.extract_path

\* The regular files, and their contents, when the loop over the matches
\* began: the tree before the request and, for extract-and-relocate, the
\* members extracted.
FilesBefore ==
    IF last.name = "move_svg_files" THEN DOMAIN last.pre.files
    ELSE DOMAIN last.pre.files \cup {Extracted(m) : m \in ArchiveMembers}

ContentBefore(p) ==
    IF last.name = "move_svg_files" THEN last.pre.files[p] ELSE ContentBelow(p)

Matches ==
    {p \in FilesBefore : is_prefix(SourceDir, p) /\ IsSvgName(name_of(p))}

Sources == {Done[i].src : i \in 1..Len(Done)}

Targets == {Done[i].dst : i \in 1..Len(Done)}

Moved == Relocating /\ ~last.raised /\ "names" \in DOMAIN Text

Reported == IF last.name = "move_svg_files" THEN Text.count ELSE Text.found

\* C12 as claimed: a successful relocation moves each match exactly once; in
\* particular no original path of a match exists afterwards.
C12_SourcesVacated ==
    Moved => \A p \in Matches : ~is_file(fs, p)

\* C12 amended: a successful relocation renames each match exactly once, to
\* the final name it reports, in the destination; as many names are reported
\* as there are matches; the tree holds the files it held, the matches under
\* their final names and every other file where it was; and the original path
\* of a match is free afterwards, or holds another match that the same
\* operation moved there (the destination lying inside the tree searched).
C12_MovedOnce ==
    Moved =>
        /\ Sources = Matches
        /\ Len(Done) = Cardinality(Matches)
        /\ Cardinality(Targets) = Len(Done)
        /\ Reported = Len(Done)
        /\ Len(Text.names) = Len(Done)
        /\ \A i \in 1..Len(Done) :
               /\ Text.names[i] = name_of(Done[i].dst)
               /\ parent(Done[i].dst) = last.trace.dest_dir
               /\ is_file(fs, Done[i].dst)
               /\ fs.files[Done[i].dst] = ContentBefore(Done[i].src)
               /\ ~is_file(fs, Done[i].src) \/ Done[i].src \in Targets
        /\ DOMAIN fs.files = (FilesBefore \ Sources) \cup Targets
        /\ Cardinality(DOMAIN fs.files) = Cardinality(FilesBefore)
        /\ \A p \in FilesBefore \ (Sources \cup Targets) : fs.files[p] = ContentBefore(p)

\* Two matches moved, one of them to the name the other one had left.
C12_Witness ==
    /\ Moved
    /\ Len(Done) = 2
    /\ \E i, j \in 1..2 : i < j /\ Done[j].dst = Done[i].src
    /\ \A p \in Targets : is_file(fs, p)

====
